---- MODULE Spec2Model ----
(***************************************************************************)
(* Model of the transcription pipeline of src/transcriber.py:              *)
(* Transcriber.transcribe_meeting (echo removal, per-channel transcription *)
(* with backend fallback, temp-file cleanup, merge, assembly) followed by  *)
(* Transcriber.save_transcript, as driven by cli().                        *)
(*                                                                         *)
(* Text is a sequence of one-character strings, so that str.strip() is     *)
(* computed rather than assumed.  Times are whole seconds.                 *)
(***************************************************************************)
EXTENDS Integers, Sequences, FiniteSets, TLC

VARIABLES
    pc,              \* position in cli() / transcribe_meeting
    primary,         \* self.primary
    parakeet_model,  \* self._parakeet_model
    whisper_model,   \* self._whisper_model
    files,           \* paths that exist in the session directory
    clean_mic_path,  \* local of transcribe_meeting
    echo,            \* which branch of the try around _remove_echo was taken
    calls,           \* log of backend loads, backend transcriptions and unlinks
    mic_segments,    \* local of transcribe_meeting
    sys_segments,    \* local of transcribe_meeting
    merged,          \* local of transcribe_meeting
    result,          \* the dict transcribe_meeting returns
    json_file,       \* <output>.json
    md_file,         \* <output>.md
    error,           \* the exception leaving the invocation, "none" if none
    threads,         \* the threads inside _load_parakeet / _load_whisper
    args,            \* the arguments of the function called on its own
    ret,             \* what that function computed
    recorder,        \* the fields of the MeetingRecorder object
    world            \* what the recorder acts on: processes, binary, clock

vars == <<pc, primary, parakeet_model, whisper_model, files, clean_mic_path,
          echo, calls, mic_segments, sys_segments, merged, result,
          json_file, md_file, error, threads, args, ret, recorder, world>>

----------------------------------------------------------------------------
(* The recorder before anything was recorded *)

\* MeetingRecorder.__init__: _recording False, _session_id None,
\* _audiocap_proc None (0 stands for None, a process is its number)
NoRecorder ==
    [recording |-> FALSE, session_id |-> "None", audiocap_proc |-> 0]

\* no capture process was launched; the audiocap binary is built
NoWorld == [procs |-> <<>>, binary |-> TRUE, now |-> 0]

----------------------------------------------------------------------------
(* Bounds of the model *)

\* segments in the two lists given to merge_channels, both lists together
MaxSegs == 3
\* largest start time of a segment, in seconds
MaxTime == 1
\* segments one backend returns for one channel
MaxOut == 1

----------------------------------------------------------------------------
(* Values *)

MicPath == "mic.wav"
SysPath == "system.wav"
CleanPath == "tmp_clean.wav"

Primaries == {"parakeet", "whisper", "other"}

Whitespace == {" ", "\t", "\n"}

SeqsUpTo(S, n) == UNION {[1..k -> S] : k \in 0..n}

\* texts of the segments given to merge_channels
MergeTexts == {<<>>, <<" ">>, <<"a">>, <<" ", "a">>}

\* texts a backend returns: both backends strip the text they return
BackendTexts == {<<>>, <<"a">>}

Segment(speaker, start, end, text, language) ==
    [speaker |-> speaker, start |-> start, end |-> end, text |-> text,
     language |-> language]

MergeSegments(speaker) ==
    {Segment(speaker, s, s + 1, t, "") : s \in 0..MaxTime, t \in MergeTexts}

BackendSegments(language) ==
    {Segment("", s, s + 1, t, language) : s \in 0..MaxTime, t \in BackendTexts}

----------------------------------------------------------------------------
(* str.strip() *)

RECURSIVE LStrip(_)
LStrip(t) ==
    IF t # <<>> /\ Head(t) \in Whitespace THEN LStrip(Tail(t)) ELSE t

RECURSIVE RStrip(_)
RStrip(t) ==
    IF t # <<>> /\ t[Len(t)] \in Whitespace
    THEN RStrip(SubSeq(t, 1, Len(t) - 1))
    ELSE t

Strip(t) == RStrip(LStrip(t))

----------------------------------------------------------------------------
(* merge_channels *)

Concat(mic, sys) == mic \o sys

\* a sort that is not stable: an element goes before the elements of its key
RECURSIVE InsertBeforeEqual(_, _)
InsertBeforeEqual(sorted, s) ==
    IF sorted = <<>> THEN <<s>>
    ELSE IF sorted[Len(sorted)].start < s.start THEN Append(sorted, s)
    ELSE Append(InsertBeforeEqual(SubSeq(sorted, 1, Len(sorted) - 1), s),
                sorted[Len(sorted)])

\* list.sort(key=lambda s: s.start) is stable: an element goes after every
\* element whose key is not larger
RECURSIVE InsertByStart(_, _)
InsertByStart(sorted, s) ==
    IF sorted = <<>> THEN <<s>>
    ELSE IF sorted[Len(sorted)].start <= s.start THEN Append(sorted, s)
    ELSE Append(InsertByStart(SubSeq(sorted, 1, Len(sorted) - 1), s),
                sorted[Len(sorted)])

RECURSIVE SortByStartFrom(_, _)
SortByStartFrom(sorted, rest) ==
    IF rest = <<>> THEN sorted
    ELSE SortByStartFrom(InsertByStart(sorted, Head(rest)), Tail(rest))

SortByStart(segs) == SortByStartFrom(<<>>, segs)

\* the test without strip(): if s.text
KeepSegmentUnstripped(s) == s.text # <<>>

KeepSegment(s) == Strip(s.text) # <<>>

\* a filter that keeps the stripped text instead of the segment as given
FilterEmptyStripping(segs) ==
    LET kept == SelectSeq(segs, KeepSegment)
    IN  [i \in 1..Len(kept) |-> [kept[i] EXCEPT !.text = Strip(kept[i].text)]]

FilterEmpty(segs) == SelectSeq(segs, KeepSegment)

merge_channels(mic, sys) == FilterEmpty(SortByStart(Concat(mic, sys)))

----------------------------------------------------------------------------
(* the result dict of transcribe_meeting *)

\* elapsed = time.time() - t0, in hundredths of a second
Elapsed == {120, 124, 130}

\* f"{x:.1f}" of x hundredths: the nearest tenth
Format1f(x) ==
    LET tenths == (x + 5) \div 10
    IN  <<ToString(tenths \div 10), ".", ToString(tenths % 10)>>

\* the line with the bracket whatever the start
LineStamped(seg) ==
    <<"**", seg.speaker, "**", " ">>
    \o <<"[">> \o Format1f(100 * seg.start) \o <<"s]">>
    \o <<":", " ">> \o seg.text

\* f"**{seg.speaker}** {timestamp}: {seg.text}"
Line(seg) ==
    <<"**", seg.speaker, "**", " ">>
    \o (IF seg.start > 0
        THEN <<"[">> \o Format1f(100 * seg.start) \o <<"s]">>
        ELSE <<>>)
    \o <<":", " ">> \o seg.text

\* "\n".join(lines)
RECURSIVE JoinLines(_)
JoinLines(lines) ==
    IF lines = <<>> THEN <<>>
    ELSE IF Len(lines) = 1 THEN lines[1]
    ELSE lines[1] \o <<"\n">> \o JoinLines(Tail(lines))

FullText(segs) == JoinLines([i \in 1..Len(segs) |-> Line(segs[i])])

LastEnd(segs) == IF segs = <<>> THEN 0 ELSE segs[Len(segs)].end

\* max((s.end for s in merged), default=0)
RECURSIVE MaxEnd(_)
MaxEnd(segs) ==
    IF segs = <<>> THEN 0
    ELSE LET m == MaxEnd(Tail(segs))
         IN  IF Head(segs).end > m THEN Head(segs).end ELSE m

NoResult ==
    [segments |-> <<>>, full_text |-> <<>>, num_segments |-> 0,
     duration_seconds |-> 0, processing_time |-> 0, model_used |-> ""]

\* model_used naming the backend that transcribed
BuildResultBackend(segs, prim, elapsed) ==
    [segments |-> segs, full_text |-> FullText(segs),
     num_segments |-> Len(segs), duration_seconds |-> MaxEnd(segs),
     processing_time |-> elapsed,
     model_used |-> IF \E i \in 1..Len(calls) :
                          calls[i].backend = "whisper" /\ calls[i].ok
                    THEN "whisper" ELSE prim]

BuildResultTimed(segs, prim, elapsed) ==
    [segments |-> segs, full_text |-> FullText(segs),
     num_segments |-> Len(segs), duration_seconds |-> elapsed,
     processing_time |-> elapsed, model_used |-> prim]

BuildResult(segs, prim, elapsed) ==
    [segments |-> segs, full_text |-> FullText(segs),
     num_segments |-> Len(segs), duration_seconds |-> MaxEnd(segs),
     processing_time |-> elapsed, model_used |-> prim]

\* a string as json.dump writes it: a line break becomes backslash, n
RECURSIVE JsonEscape(_)
JsonEscape(text) ==
    IF text = <<>> THEN <<>>
    ELSE IF Head(text) = "\n" THEN <<"\\", "n">> \o JsonEscape(Tail(text))
    ELSE <<Head(text)>> \o JsonEscape(Tail(text))

\* a string as json.load reads it
RECURSIVE JsonUnescape(_)
JsonUnescape(text) ==
    IF text = <<>> THEN <<>>
    ELSE IF Head(text) = "\\" /\ Len(text) > 1 /\ text[2] = "n"
    THEN <<"\n">> \o JsonUnescape(Tail(Tail(text)))
    ELSE <<Head(text)>> \o JsonUnescape(Tail(text))

\* json.dump(result, f, ensure_ascii=False, indent=2): the members in the
\* order of the dict, strings escaped
JsonDump(res) ==
    [res EXCEPT
        !.segments = [i \in 1..Len(res.segments) |->
                         [res.segments[i] EXCEPT
                             !.text = JsonEscape(res.segments[i].text)]],
        !.full_text = JsonEscape(res.full_text)]

\* json.load of the structured transcript
JsonLoad(data) ==
    [data EXCEPT
        !.segments = [i \in 1..Len(data.segments) |->
                         [data.segments[i] EXCEPT
                             !.text = JsonUnescape(data.segments[i].text)]],
        !.full_text = JsonUnescape(data.full_text)]

\* what save_transcript writes to the Markdown file
Markdown(res) ==
    <<"# Meeting Transcript", "\n", "\n",
      "- Model: ", res.model_used, "\n",
      "- Segments: ", ToString(res.num_segments), "\n",
      "- Processing time: ">> \o Format1f(res.processing_time)
    \o <<"s", "\n", "\n", "---", "\n", "\n">> \o res.full_text

NoMarkdown == <<>>

----------------------------------------------------------------------------
(* The backends.  What a backend does on one channel is an input:          *)
(*   load_fail        the import or the model constructor raises           *)
(*   config_fail      from_pretrained returns, change_attention_model      *)
(*                    raises (parakeet only)                               *)
(*   transcribe_fail  model.transcribe raises                              *)
(*   ok               model.transcribe returns the segments                *)

\* one call made during the invocation; returned holds the segments a
\* backend's transcribe returned
Entry(op, backend, speaker, path, ok, returned) ==
    [op |-> op, backend |-> backend, speaker |-> speaker, path |-> path,
     ok |-> ok, returned |-> returned]

Run(status, segments) == [status |-> status, segments |-> segments]

NotRun == Run("not_run", <<>>)

ParakeetFailures(model) ==
    IF model = "None"
    THEN {Run("load_fail", <<>>), Run("config_fail", <<>>),
          Run("transcribe_fail", <<>>)}
    ELSE {Run("transcribe_fail", <<>>)}

ParakeetReturns == {Run("ok", s) : s \in SeqsUpTo(BackendSegments(""), MaxOut)}

WhisperRuns(model) ==
    (IF model = "None" THEN {Run("load_fail", <<>>)} ELSE {})
        \cup {Run("transcribe_fail", <<>>)}
        \cup {Run("ok", s) : s \in SeqsUpTo(BackendSegments("en"), MaxOut)}

\* _load_parakeet without the "is None" test: the model is built on every call
LoadParakeetAlways(model, speaker, path, run) ==
    IF run.status = "load_fail"
    THEN [model |-> "None", raised |-> TRUE,
          log |-> <<Entry("load", "parakeet", speaker, path, FALSE, <<>>)>>]
    ELSE IF run.status = "config_fail"
    THEN [model |-> "unconfigured", raised |-> TRUE,
          log |-> <<Entry("load", "parakeet", speaker, path, FALSE, <<>>)>>]
    ELSE [model |-> "ready", raised |-> FALSE,
          log |-> <<Entry("load", "parakeet", speaker, path, TRUE, <<>>)>>]

\* _load_parakeet: [model, raised, log]
LoadParakeet(model, speaker, path, run) ==
    IF model # "None"
    THEN [model |-> model, raised |-> FALSE, log |-> <<>>]
    ELSE IF run.status = "load_fail"
    THEN [model |-> "None", raised |-> TRUE,
          log |-> <<Entry("load", "parakeet", speaker, path, FALSE, <<>>)>>]
    ELSE IF run.status = "config_fail"
    THEN [model |-> "unconfigured", raised |-> TRUE,
          log |-> <<Entry("load", "parakeet", speaker, path, FALSE, <<>>)>>]
    ELSE [model |-> "ready", raised |-> FALSE,
          log |-> <<Entry("load", "parakeet", speaker, path, TRUE, <<>>)>>]

\* _load_whisper: [model, raised, log]
LoadWhisper(model, speaker, path, run) ==
    IF model # "None"
    THEN [model |-> model, raised |-> FALSE, log |-> <<>>]
    ELSE IF run.status = "load_fail"
    THEN [model |-> "None", raised |-> TRUE,
          log |-> <<Entry("load", "whisper", speaker, path, FALSE, <<>>)>>]
    ELSE [model |-> "loaded", raised |-> FALSE,
          log |-> <<Entry("load", "whisper", speaker, path, TRUE, <<>>)>>]

\* _transcribe_parakeet: [model, raised, segments, log]
TranscribeParakeet(model, speaker, path, run) ==
    LET ld == LoadParakeet(model, speaker, path, run)
    IN  IF ld.raised
        THEN [model |-> ld.model, raised |-> TRUE, segments |-> <<>>,
              log |-> ld.log]
        ELSE IF run.status = "ok"
        THEN [model |-> ld.model, raised |-> FALSE, segments |-> run.segments,
              log |-> Append(ld.log,
                             Entry("transcribe", "parakeet", speaker, path, TRUE,
                                   run.segments))]
        ELSE [model |-> ld.model, raised |-> TRUE, segments |-> <<>>,
              log |-> Append(ld.log,
                             Entry("transcribe", "parakeet", speaker, path, FALSE,
                                   <<>>))]

\* _transcribe_whisper: [model, raised, segments, log]
TranscribeWhisper(model, speaker, path, run) ==
    LET ld == LoadWhisper(model, speaker, path, run)
    IN  IF ld.raised
        THEN [model |-> ld.model, raised |-> TRUE, segments |-> <<>>,
              log |-> ld.log]
        ELSE IF run.status = "ok"
        THEN [model |-> ld.model, raised |-> FALSE, segments |-> run.segments,
              log |-> Append(ld.log,
                             Entry("transcribe", "whisper", speaker, path, TRUE,
                                   run.segments))]
        ELSE [model |-> ld.model, raised |-> TRUE, segments |-> <<>>,
              log |-> Append(ld.log,
                             Entry("transcribe", "whisper", speaker, path, FALSE,
                                   <<>>))]

----------------------------------------------------------------------------
(* transcribe_channel *)

\* parakeet first whatever the configuration says
UsesParakeetAlways(prim) == TRUE

\* parakeet first only until it has failed once
UsesParakeetUntilFailure(prim) ==
    /\ prim = "parakeet"
    /\ \A i \in 1..Len(calls) : ~(calls[i].backend = "parakeet" /\ ~calls[i].ok)

\* parakeet first for every value that is not "whisper"
UsesParakeetUnlessWhisper(prim) == prim # "whisper"

UsesParakeet(prim) == prim = "parakeet"

\* the tagging loop left out
LeaveSpeaker(segs, speaker) == segs

\* every segment tagged with the label of the self channel
TagSpeakerMe(segs, speaker) ==
    [i \in 1..Len(segs) |-> [segs[i] EXCEPT !.speaker = "Me"]]

\* for seg in segments: seg.speaker = speaker
TagSpeaker(segs, speaker) ==
    [i \in 1..Len(segs) |-> [segs[i] EXCEPT !.speaker = speaker]]

\* what the backends do during one call of transcribe_channel: the fallback
\* runs only after a failure of parakeet
ChannelRuns(prim, pmodel, wmodel) ==
    IF UsesParakeet(prim)
    THEN {[pk |-> p, wh |-> NotRun] : p \in ParakeetReturns}
         \cup {[pk |-> p, wh |-> w] :
                  p \in ParakeetFailures(pmodel), w \in WhisperRuns(wmodel)}
    ELSE {[pk |-> NotRun, wh |-> w] : w \in WhisperRuns(wmodel)}

\* [segments, raised, parakeet_model, whisper_model, log]
transcribe_channel(prim, pmodel, wmodel, path, speaker, runs) ==
    IF UsesParakeet(prim)
    THEN LET p == TranscribeParakeet(pmodel, speaker, path, runs.pk)
         IN  IF ~p.raised
             THEN [segments |-> TagSpeaker(p.segments, speaker),
                   raised |-> FALSE, parakeet_model |-> p.model,
                   whisper_model |-> wmodel, log |-> p.log]
             ELSE LET w == TranscribeWhisper(wmodel, speaker, path, runs.wh)
                  IN  [segments |-> TagSpeaker(w.segments, speaker),
                       raised |-> w.raised, parakeet_model |-> p.model,
                       whisper_model |-> w.model, log |-> p.log \o w.log]
    ELSE LET w == TranscribeWhisper(wmodel, speaker, path, runs.wh)
         IN  [segments |-> TagSpeaker(w.segments, speaker),
              raised |-> w.raised, parakeet_model |-> pmodel,
              whisper_model |-> w.model, log |-> w.log]

----------------------------------------------------------------------------
(* cli(): transcribe_meeting step by step, then save_transcript *)

FileOld == [status |-> "old", data |-> NoResult]

MdOld == [status |-> "old", data |-> NoMarkdown]

Init ==
    /\ pc = "echo"
    /\ primary \in Primaries
    /\ parakeet_model = "None"
    /\ whisper_model = "None"
    /\ files = {MicPath, SysPath}
    /\ clean_mic_path = MicPath
    /\ echo = "pending"
    /\ calls = <<>>
    /\ mic_segments = <<>>
    /\ sys_segments = <<>>
    /\ merged = <<>>
    /\ result = NoResult
    /\ json_file = FileOld
    /\ md_file = MdOld
    /\ error = "none"
    /\ recorder = NoRecorder
    /\ world = NoWorld
    /\ threads = <<>>
    /\ args = <<>>
    /\ ret = <<>>

\* _remove_echo outside any try: its exception leaves transcribe_meeting
RemoveEchoFatal ==
    /\ pc = "echo"
    /\ \E outcome \in {"read_fail", "write_fail", "ok"} :
          /\ files' = IF outcome = "read_fail" THEN files
                      ELSE files \cup {CleanPath}
          /\ clean_mic_path' = IF outcome = "ok" THEN CleanPath ELSE MicPath
          /\ echo' = IF outcome = "ok" THEN "ok" ELSE "failed"
          /\ pc' = IF outcome = "ok" THEN "mic" ELSE "aborted"
          /\ error' = IF outcome = "ok" THEN error ELSE "echo"
    /\ UNCHANGED <<threads, args, ret, recorder, world>>
    /\ UNCHANGED <<primary, parakeet_model, whisper_model, calls, mic_segments,
                   sys_segments, merged, result, json_file, md_file>>

\* try: clean_mic_path = self._remove_echo(mic_path, sys_path)
\* except Exception: (warning only)
\*   read_fail   _remove_echo raises before sf.write creates the file
\*   write_fail  sf.write raises after it created the file
\*   ok          _remove_echo returns the path of the file it wrote
RemoveEcho ==
    /\ pc = "echo"
    /\ \E outcome \in {"read_fail", "write_fail", "ok"} :
          /\ files' = IF outcome = "read_fail" THEN files
                      ELSE files \cup {CleanPath}
          /\ clean_mic_path' = IF outcome = "ok" THEN CleanPath ELSE MicPath
          /\ echo' = IF outcome = "ok" THEN "ok" ELSE "failed"
    /\ pc' = "mic"
    /\ UNCHANGED <<threads, args, ret, recorder, world>>
    /\ UNCHANGED <<primary, parakeet_model, whisper_model, calls, mic_segments,
                   sys_segments, merged, result, json_file, md_file, error>>

\* the exception of a channel swallowed
AfterChannelContinue(raised, next) == next

\* the merge right after the first channel
AfterChannelToMerge(raised, next) == IF raised THEN "aborted" ELSE "merge"

\* transcribe_meeting has no try around transcribe_channel: an exception
\* leaves transcribe_meeting, and cli() with it
AfterChannel(raised, next) == IF raised THEN "aborted" ELSE next

\* mic_segments = self.transcribe_channel(clean_mic_path, "Me")
TranscribeMic ==
    /\ pc = "mic"
    /\ \E runs \in ChannelRuns(primary, parakeet_model, whisper_model) :
          LET r == transcribe_channel(primary, parakeet_model, whisper_model,
                                      clean_mic_path, "Me", runs)
          IN  /\ parakeet_model' = r.parakeet_model
              /\ whisper_model' = r.whisper_model
              /\ calls' = calls \o r.log
              /\ pc' = AfterChannel(r.raised, "sys")
              /\ IF r.raised
                 THEN /\ error' = "transcription"
                      /\ UNCHANGED mic_segments
                 ELSE /\ mic_segments' = r.segments
                      /\ UNCHANGED error
    /\ UNCHANGED <<threads, args, ret, recorder, world>>
    /\ UNCHANGED <<primary, files, clean_mic_path, echo, sys_segments, merged,
                   result, json_file, md_file>>

\* sys_segments = self.transcribe_channel(sys_path, "Them")
TranscribeSys ==
    /\ pc = "sys"
    /\ \E runs \in ChannelRuns(primary, parakeet_model, whisper_model) :
          LET r == transcribe_channel(primary, parakeet_model, whisper_model,
                                      SysPath, "Them", runs)
          IN  /\ parakeet_model' = r.parakeet_model
              /\ whisper_model' = r.whisper_model
              /\ calls' = calls \o r.log
              /\ pc' = AfterChannel(r.raised, "cleanup")
              /\ IF r.raised
                 THEN /\ error' = "transcription"
                      /\ UNCHANGED sys_segments
                 ELSE /\ sys_segments' = r.segments
                      /\ UNCHANGED error
    /\ UNCHANGED <<threads, args, ret, recorder, world>>
    /\ UNCHANGED <<primary, files, clean_mic_path, echo, mic_segments, merged,
                   result, json_file, md_file>>

\* os.unlink outside any try: its OSError leaves transcribe_meeting
CleanupFatal ==
    /\ pc = "cleanup"
    /\ IF clean_mic_path # MicPath
       THEN \E removed \in BOOLEAN :
               /\ files' = IF removed THEN files \ {clean_mic_path} ELSE files
               /\ calls' = Append(calls, Entry("unlink", "os", "",
                                               clean_mic_path, removed, <<>>))
               /\ pc' = IF removed THEN "merge" ELSE "aborted"
               /\ error' = IF removed THEN error ELSE "cleanup"
       ELSE /\ pc' = "merge"
            /\ UNCHANGED <<files, calls, error>>
    /\ UNCHANGED <<threads, args, ret, recorder, world>>
    /\ UNCHANGED <<primary, parakeet_model, whisper_model, clean_mic_path, echo,
                   mic_segments, sys_segments, merged, result, json_file,
                   md_file>>

\* os.unlink(clean_mic_path) without the comparison with mic_path
CleanupUnguarded ==
    /\ pc = "cleanup"
    /\ \E removed \in BOOLEAN :
          /\ files' = IF removed THEN files \ {clean_mic_path} ELSE files
          /\ calls' = Append(calls, Entry("unlink", "os", "",
                                          clean_mic_path, removed, <<>>))
    /\ pc' = "merge"
    /\ UNCHANGED <<threads, args, ret, recorder, world>>
    /\ UNCHANGED <<primary, parakeet_model, whisper_model, clean_mic_path, echo,
                   mic_segments, sys_segments, merged, result, json_file,
                   md_file, error>>

\* if clean_mic_path != mic_path: try: os.unlink(...) except OSError: pass
Cleanup ==
    /\ pc = "cleanup"
    /\ IF clean_mic_path # MicPath
       THEN \E removed \in BOOLEAN :
               /\ files' = IF removed THEN files \ {clean_mic_path} ELSE files
               /\ calls' = Append(calls, Entry("unlink", "os", "",
                                               clean_mic_path, removed, <<>>))
       ELSE UNCHANGED <<files, calls>>
    /\ pc' = "merge"
    /\ UNCHANGED <<threads, args, ret, recorder, world>>
    /\ UNCHANGED <<primary, parakeet_model, whisper_model, clean_mic_path, echo,
                   mic_segments, sys_segments, merged, result, json_file,
                   md_file, error>>

\* merged = self.merge_channels(mic_segments, sys_segments); result = {...}
MergeAndAssemble ==
    /\ pc = "merge"
    /\ merged' = merge_channels(mic_segments, sys_segments)
    /\ \E elapsed \in Elapsed :
          result' = BuildResult(merge_channels(mic_segments, sys_segments),
                                primary, elapsed)
    /\ pc' = "returned"
    /\ UNCHANGED <<threads, args, ret, recorder, world>>
    /\ UNCHANGED <<primary, parakeet_model, whisper_model, files,
                   clean_mic_path, echo, calls, mic_segments, sys_segments,
                   json_file, md_file, error>>

\* what the two writes of save_transcript do
SaveOutcomes ==
    {"json_open_fail", "json_write_fail", "md_open_fail", "md_write_fail", "ok"}

\* the JSON file after save_transcript: open(json_path, "w") truncates, then
\* json.dump writes
JsonAfter(old, res, outcome) ==
    IF outcome = "json_open_fail" THEN old
    ELSE IF outcome = "json_write_fail" THEN [status |-> "partial", data |-> NoResult]
    ELSE [status |-> "new", data |-> JsonDump(res)]

\* the Markdown file written before the JSON file
MdWrittenFirst(old, res, outcome) ==
    IF outcome = "md_open_fail" THEN old
    ELSE IF outcome = "md_write_fail" THEN [status |-> "partial", data |-> NoMarkdown]
    ELSE [status |-> "new", data |-> Markdown(res)]

\* the Markdown file after save_transcript: opened only after the JSON file
\* was written and closed
MdAfter(old, res, outcome) ==
    IF outcome \in {"json_open_fail", "json_write_fail", "md_open_fail"} THEN old
    ELSE IF outcome = "md_write_fail" THEN [status |-> "partial", data |-> NoMarkdown]
    ELSE [status |-> "new", data |-> Markdown(res)]

\* transcriber.save_transcript(result, ...)
SaveTranscript ==
    /\ pc = "returned"
    /\ \E outcome \in SaveOutcomes :
          /\ json_file' = JsonAfter(json_file, result, outcome)
          /\ md_file' = MdAfter(md_file, result, outcome)
          /\ pc' = IF outcome = "ok" THEN "saved" ELSE "save_failed"
          /\ error' = IF outcome = "ok" THEN error ELSE "io"
    /\ UNCHANGED <<threads, args, ret, recorder, world>>
    /\ UNCHANGED <<primary, parakeet_model, whisper_model, files,
                   clean_mic_path, echo, calls, mic_segments, sys_segments,
                   merged, result>>

Next ==
    \/ RemoveEcho
    \/ TranscribeMic
    \/ TranscribeSys
    \/ Cleanup
    \/ MergeAndAssemble
    \/ SaveTranscript

Spec == Init /\ [][Next]_vars

----------------------------------------------------------------------------
(* merge_channels on its own: every pair of tagged lists within the bounds *)

InitMerge ==
    /\ pc = "merge"
    /\ primary = "parakeet"
    /\ parakeet_model = "None"
    /\ whisper_model = "None"
    /\ files = {MicPath, SysPath}
    /\ clean_mic_path = MicPath
    /\ echo = "failed"
    /\ calls = <<>>
    /\ mic_segments \in SeqsUpTo(MergeSegments("Me"), MaxSegs)
    /\ sys_segments \in SeqsUpTo(MergeSegments("Them"), MaxSegs - Len(mic_segments))
    /\ merged = <<>>
    /\ result = NoResult
    /\ json_file = FileOld
    /\ md_file = MdOld
    /\ error = "none"
    /\ recorder = NoRecorder
    /\ world = NoWorld
    /\ threads = <<>>
    /\ args = <<>>
    /\ ret = <<>>

NextMerge == MergeAndAssemble

SpecMerge == InitMerge /\ [][NextMerge]_vars

----------------------------------------------------------------------------
(* Vocabulary of the properties *)

\* the text holds a character that is not whitespace
NonBlank(text) == \E i \in 1..Len(text) : text[i] \notin Whitespace

IsSortedByStart(segs) ==
    \A i, j \in 1..Len(segs) : i < j => segs[i].start <= segs[j].start

\* the segments of segs that start at t, in the order of segs
StartingAt(segs, t) ==
    LET Test(s) == s.start = t IN SelectSeq(segs, Test)

\* the segments of segs whose text is not blank, in the order of segs
WithText(segs) ==
    LET Test(s) == NonBlank(s.text) IN SelectSeq(segs, Test)

Count(segs, s) == Cardinality({i \in 1..Len(segs) : segs[i] = s})

AllMergeSegments == MergeSegments("Me") \cup MergeSegments("Them")

----------------------------------------------------------------------------
(* C1..C3: merge_channels, under SpecMerge *)

\* C1: the list merge_channels returns is sorted ascending by start, and the
\* segments of one start keep the order they have in mic + sys: no remote
\* segment precedes a self segment of the same start, and the segments of one
\* channel keep their relative order.
C1_SortedAndStable ==
    pc = "returned" =>
        /\ IsSortedByStart(merged)
        /\ \A t \in 0..MaxTime :
              StartingAt(merged, t)
                  = StartingAt(WithText(mic_segments \o sys_segments), t)
        /\ \A i, j \in 1..Len(merged) :
              (i < j /\ merged[i].start = merged[j].start)
                  => ~(merged[i].speaker = "Them" /\ merged[j].speaker = "Me")

\* the sort moved a segment, and a self and a remote segment share a start
C1_Witness ==
    /\ pc = "returned"
    /\ ~IsSortedByStart(mic_segments \o sys_segments)
    /\ \E i, j \in 1..Len(merged) :
          /\ i < j
          /\ merged[i].start = merged[j].start
          /\ merged[i].speaker = "Me"
          /\ merged[j].speaker = "Them"

\* C2: no segment of the merged list has empty or whitespace-only text; with
\* an empty self channel and the single remote segment (0, 1, "") the merged
\* list is empty and duration_seconds is 0.
C2_NoBlankSegment ==
    pc = "returned" =>
        /\ \A i \in 1..Len(merged) : NonBlank(merged[i].text)
        /\ (mic_segments = <<>>
              /\ sys_segments = <<Segment("Them", 0, 1, <<>>, "")>>)
           => (merged = <<>> /\ result.duration_seconds = 0)

\* a whitespace-only segment and an empty one were given and dropped, and a
\* segment was kept
C2_Witness ==
    /\ pc = "returned"
    /\ \E i \in 1..Len(mic_segments) : mic_segments[i].text = <<" ">>
    /\ \E i \in 1..Len(sys_segments) : sys_segments[i].text = <<>>
    /\ merged # <<>>

\* the merged list holds each input segment with non-blank text as often as
\* the two inputs hold it, and nothing else
MergedIsTheNonBlankInput ==
    pc = "returned" =>
        /\ \A s \in AllMergeSegments :
              Count(merged, s)
                  = IF NonBlank(s.text)
                    THEN Count(mic_segments, s) + Count(sys_segments, s)
                    ELSE 0
        /\ \A i \in 1..Len(merged) : merged[i] \in AllMergeSegments

\* C3: merge_channels neither duplicates nor alters a segment (the result is
\* the multiset of the input segments with non-blank text, every field as
\* given), and it leaves its two input lists as they were.
C3_NoDuplicateNoChange ==
    /\ []MergedIsTheNonBlankInput
    /\ [][pc = "merge" => /\ mic_segments' = mic_segments
                          /\ sys_segments' = sys_segments]_vars

\* a segment given twice is kept twice, one with surrounding whitespace is
\* kept as given, and a blank one was dropped
C3_Witness ==
    /\ pc = "returned"
    /\ \E s \in AllMergeSegments : Count(merged, s) = 2
    /\ \E i \in 1..Len(merged) : merged[i].text = <<" ", "a">>
    /\ Len(merged) < Len(mic_segments) + Len(sys_segments)

----------------------------------------------------------------------------
(* Vocabulary of the properties of the pipeline *)

Speakers == {"Me", "Them"}

\* the call at position i is a failed load or transcription of backend for
\* the channel of speaker
Failed(i, backend, speaker) ==
    /\ calls[i].backend = backend
    /\ calls[i].speaker = speaker
    /\ ~calls[i].ok

\* the call at position i is a transcription by backend for the channel of
\* speaker that returned
Returned(i, backend, speaker) ==
    /\ calls[i].op = "transcribe"
    /\ calls[i].backend = backend
    /\ calls[i].speaker = speaker
    /\ calls[i].ok

ChannelSegments(speaker) ==
    IF speaker = "Me" THEN mic_segments ELSE sys_segments

\* the invocation ended with an exception of the channel of speaker
ChannelRaised(speaker) ==
    /\ pc = "aborted"
    /\ calls # <<>>
    /\ calls[Len(calls)].speaker = speaker

\* tagged is raw with every speaker field set to speaker and nothing else
\* changed
SameButSpeaker(tagged, raw, speaker) ==
    /\ Len(tagged) = Len(raw)
    /\ \A i \in 1..Len(raw) :
          /\ tagged[i].speaker = speaker
          /\ tagged[i].start = raw[i].start
          /\ tagged[i].end = raw[i].end
          /\ tagged[i].text = raw[i].text
          /\ tagged[i].language = raw[i].language

BothFailedOn(speaker) ==
    \E i, j \in 1..Len(calls) :
        i < j /\ Failed(i, "parakeet", speaker) /\ Failed(j, "whisper", speaker)

Finished == {"merge", "returned", "saved", "save_failed", "aborted"}

----------------------------------------------------------------------------
(* C4..C10: the pipeline, under Spec *)

\* C4: with primary_model "parakeet", when parakeet raises on a channel the
\* next call is the fallback on the same audio path, and when the fallback
\* returns, the channel's segments are exactly the fallback's, each tagged
\* with the channel's speaker, and no exception of that channel reaches the
\* caller.
C4_FallbackReplacesPrimary ==
    primary = "parakeet" =>
        \A sp \in Speakers : \A i \in 1..Len(calls) :
            Failed(i, "parakeet", sp) =>
                /\ i < Len(calls)
                /\ calls[i + 1].backend = "whisper"
                /\ calls[i + 1].speaker = sp
                /\ calls[i + 1].path = calls[i].path
                /\ \A j \in (i + 1)..Len(calls) :
                      Returned(j, "whisper", sp) =>
                          /\ ~ChannelRaised(sp)
                          /\ SameButSpeaker(ChannelSegments(sp),
                                            calls[j].returned, sp)

\* parakeet raised on the self channel and the fallback returned a segment
C4_Witness ==
    /\ primary = "parakeet"
    /\ pc = "sys"
    /\ \E i \in 1..Len(calls) : Failed(i, "parakeet", "Me")
    /\ mic_segments # <<>>

\* C5: when parakeet and then the fallback fail on a channel, the invocation
\* ends with that exception: transcribe_meeting returns nothing, and neither
\* the JSON nor the Markdown transcript is written.
C5_BothFailAborts ==
    \A sp \in Speakers :
        BothFailedOn(sp) =>
            /\ pc = "aborted"
            /\ error = "transcription"
            /\ result = NoResult
            /\ json_file = FileOld
            /\ md_file = MdOld

\* both backends failed on the remote channel after the self channel had
\* been transcribed
C5_Witness ==
    /\ BothFailedOn("Them")
    /\ mic_segments # <<>>

\* C6: once the invocation has left channel transcription, by return or by
\* exception, the temporary file written by echo suppression does not exist
\* (a removal that the operating system refused set aside).
C6_TempFileRemoved ==
    (/\ pc \in Finished
     /\ echo = "ok"
     /\ \A i \in 1..Len(calls) : ~(calls[i].op = "unlink" /\ ~calls[i].ok))
        => CleanPath \notin files

\* C7: an exception of _remove_echo does not end the invocation: the self
\* channel is transcribed next, from the original mic path.
C7_EchoFailureNotFatal ==
    echo = "failed" =>
        /\ clean_mic_path = MicPath
        /\ calls = <<>> => pc = "mic"
        /\ pc = "aborted" => error = "transcription"
        /\ \A i \in 1..Len(calls) :
              calls[i].speaker = "Me" => calls[i].path = MicPath

\* echo suppression failed and the invocation returned a transcript with a
\* self segment
C7_Witness ==
    /\ echo = "failed"
    /\ pc = "returned"
    /\ mic_segments # <<>>
    /\ \E i \in 1..Len(calls) : calls[i].speaker = "Me" /\ calls[i].path = MicPath

\* C8 as stated: after save_transcript, whether it succeeded or failed, both
\* files hold the new transcript or neither was overwritten.
C8_BothOrNeither ==
    pc \in {"saved", "save_failed"} =>
        \/ /\ json_file = [status |-> "new", data |-> JsonDump(result)]
           /\ md_file = [status |-> "new", data |-> Markdown(result)]
        \/ /\ json_file = FileOld
           /\ md_file = MdOld

\* C8 amended: save_transcript writes the JSON file, then the Markdown file,
\* and undoes nothing.  After a successful call both hold the new
\* transcript; after a failed call the exception propagates and the files
\* are not both new; the Markdown file is touched only once the JSON file
\* holds the whole new transcript.
C8_JsonThenMarkdown ==
    /\ pc = "saved" =>
          /\ json_file = [status |-> "new", data |-> JsonDump(result)]
          /\ md_file = [status |-> "new", data |-> Markdown(result)]
    /\ pc = "save_failed" =>
          /\ error = "io"
          /\ md_file.status # "new"
    /\ md_file # MdOld => json_file = [status |-> "new", data |-> JsonDump(result)]

\* the Markdown write failed after the JSON file was written
C8_Witness ==
    /\ pc = "save_failed"
    /\ json_file = [status |-> "new", data |-> JsonDump(result)]
    /\ md_file = MdOld
    /\ result.num_segments > 0

\* C9: with primary_model "whisper" only whisper is loaded and invoked, and
\* a failure of whisper ends the invocation: no call follows it.
C9_WhisperPrimaryOnly ==
    primary = "whisper" =>
        /\ parakeet_model = "None"
        /\ \A i \in 1..Len(calls) : calls[i].backend # "parakeet"
        /\ pc \notin {"echo", "mic"} =>
              \E i \in 1..Len(calls) :
                  calls[i].backend = "whisper" /\ calls[i].speaker = "Me"
        /\ \A i \in 1..Len(calls) :
              (calls[i].backend = "whisper" /\ ~calls[i].ok) =>
                  /\ i = Len(calls)
                  /\ pc = "aborted"
                  /\ error = "transcription"

\* whisper is primary, transcribed the self channel and failed on the remote
C9_Witness ==
    /\ primary = "whisper"
    /\ pc = "aborted"
    /\ mic_segments # <<>>
    /\ Failed(Len(calls), "whisper", "Them")

\* C10: after parakeet failed on the self channel and the fallback
\* transcribed it, the remote channel starts with parakeet again, and whisper
\* runs on the remote channel only after parakeet failed on that channel.
C10_FallbackPerChannel ==
    (primary = "parakeet" /\ \E i \in 1..Len(calls) : Failed(i, "parakeet", "Me")) =>
        \A j \in 1..Len(calls) :
            calls[j].speaker = "Them" =>
                /\ (\A k \in 1..(j - 1) : calls[k].speaker # "Them")
                      => calls[j].backend = "parakeet"
                /\ calls[j].backend = "whisper"
                      => \E k \in 1..(j - 1) : Failed(k, "parakeet", "Them")

\* parakeet failed on the self channel and transcribed the remote channel
C10_Witness ==
    /\ primary = "parakeet"
    /\ \E i \in 1..Len(calls) : Failed(i, "parakeet", "Me")
    /\ \E j \in 1..Len(calls) : Returned(j, "parakeet", "Them")
    /\ mic_segments # <<>>
    /\ sys_segments # <<>>

----------------------------------------------------------------------------
(* C11: lazy, cached backend models, under Spec *)

Backends == {"parakeet", "whisper"}

\* the call at position i is a load of backend
IsLoad(i, backend) == calls[i].op = "load" /\ calls[i].backend = backend

\* C11: under sequential use a backend model is loaded lazily and at most
\* once: nothing is loaded before a transcription needs it (a load is part
\* of the transcription call that follows it), and after a load that
\* succeeded no call loads that backend again, every later transcription
\* using the cached model.
C11_LazyLoadedOnce ==
    /\ calls = <<>> => (parakeet_model = "None" /\ whisper_model = "None")
    /\ (parakeet_model = "ready")
          = (\E i \in 1..Len(calls) : IsLoad(i, "parakeet") /\ calls[i].ok)
    /\ (whisper_model = "loaded")
          = (\E i \in 1..Len(calls) : IsLoad(i, "whisper") /\ calls[i].ok)
    /\ \A b \in Backends : \A i \in 1..Len(calls) :
          (IsLoad(i, b) /\ calls[i].ok) =>
              /\ i < Len(calls)
              /\ calls[i + 1].op = "transcribe"
              /\ calls[i + 1].backend = b
              /\ calls[i + 1].speaker = calls[i].speaker
              /\ \A j \in (i + 1)..Len(calls) : ~IsLoad(j, b)

\* parakeet was loaded for the self channel and transcribed the remote
\* channel with the cached model
C11_Witness ==
    /\ \E i \in 1..Len(calls) :
          IsLoad(i, "parakeet") /\ calls[i].ok /\ calls[i].speaker = "Me"
    /\ \E j \in 1..Len(calls) : Returned(j, "parakeet", "Them")
    /\ pc = "cleanup"

----------------------------------------------------------------------------
(* _load_parakeet and _load_whisper called by several threads on one        *)
(* Transcriber whose models are not loaded yet.  Neither method takes a    *)
(* lock; a thread can be preempted between the "is None" test, the         *)
(* construction of the model, the assignment to the field and the          *)
(* configuration of the model.                                             *)

\* threads making the first use of the Transcriber
NumThreads == 2

FieldOf(backend) ==
    IF backend = "parakeet" THEN parakeet_model ELSE whisper_model

InitThreads ==
    /\ pc = "threads"
    /\ primary = "parakeet"
    /\ parakeet_model = "None"
    /\ whisper_model = "None"
    /\ files = {MicPath, SysPath}
    /\ clean_mic_path = MicPath
    /\ echo = "pending"
    /\ calls = <<>>
    /\ mic_segments = <<>>
    /\ sys_segments = <<>>
    /\ merged = <<>>
    /\ result = NoResult
    /\ json_file = FileOld
    /\ md_file = MdOld
    /\ error = "none"
    /\ recorder = NoRecorder
    /\ world = NoWorld
    /\ threads \in [1..NumThreads -> {[pc |-> "test", backend |-> b] : b \in Backends}]
    /\ args = <<>>
    /\ ret = <<>>

ThreadFrame ==
    UNCHANGED <<pc, primary, files, clean_mic_path, echo, mic_segments,
                sys_segments, merged, result, json_file, md_file, error, args,
                ret, recorder, world>>

\* if self._parakeet_model is None: / if self._whisper_model is None:
LoadTest(t) ==
    /\ threads[t].pc = "test"
    /\ threads' = [threads EXCEPT ![t].pc =
                      IF FieldOf(threads[t].backend) = "None"
                      THEN "build" ELSE "return"]
    /\ UNCHANGED <<parakeet_model, whisper_model, calls>>
    /\ ThreadFrame

\* ASRModel.from_pretrained(...) / WhisperModel(...): builds a model, or raises
LoadBuild(t) ==
    /\ threads[t].pc = "build"
    /\ \E ok \in BOOLEAN :
          /\ calls' = Append(calls, Entry("build", threads[t].backend,
                                          ToString(t), "", ok, <<>>))
          /\ threads' = [threads EXCEPT ![t].pc =
                            IF ok THEN "store" ELSE "raised"]
    /\ UNCHANGED <<parakeet_model, whisper_model>>
    /\ ThreadFrame

\* self._parakeet_model = ... / self._whisper_model = ...
LoadStore(t) ==
    /\ threads[t].pc = "store"
    /\ IF threads[t].backend = "parakeet"
       THEN /\ parakeet_model' = "unconfigured"
            /\ UNCHANGED whisper_model
            /\ threads' = [threads EXCEPT ![t].pc = "configure"]
       ELSE /\ whisper_model' = "loaded"
            /\ UNCHANGED parakeet_model
            /\ threads' = [threads EXCEPT ![t].pc = "return"]
    /\ UNCHANGED calls
    /\ ThreadFrame

\* self._parakeet_model.change_attention_model(...): configures the model the
\* field holds, or raises
LoadConfigure(t) ==
    /\ threads[t].pc = "configure"
    /\ \E ok \in BOOLEAN :
          /\ parakeet_model' = IF ok THEN "ready" ELSE parakeet_model
          /\ threads' = [threads EXCEPT ![t].pc =
                            IF ok THEN "return" ELSE "raised"]
    /\ UNCHANGED <<whisper_model, calls>>
    /\ ThreadFrame

\* return self._parakeet_model / return self._whisper_model
LoadReturn(t) ==
    /\ threads[t].pc = "return"
    /\ threads' = [threads EXCEPT ![t].pc = "done"]
    /\ UNCHANGED <<parakeet_model, whisper_model, calls>>
    /\ ThreadFrame

NextThreads ==
    \E t \in 1..NumThreads :
        \/ LoadTest(t)
        \/ LoadBuild(t)
        \/ LoadStore(t)
        \/ LoadConfigure(t)
        \/ LoadReturn(t)

SpecThreads == InitThreads /\ [][NextThreads]_vars

\* the models of backend that were built
Builds(backend) ==
    {i \in 1..Len(calls) : /\ calls[i].op = "build"
                           /\ calls[i].backend = backend
                           /\ calls[i].ok}

\* C12: when several threads make the first use of one Transcriber's backend
\* at the same time, no interleaving lets two of them build the model: at
\* most one model of a backend is ever built.
C12_SingleFlight ==
    \A b \in Backends : Cardinality(Builds(b)) <= 1

----------------------------------------------------------------------------
(* _remove_echo on the samples of the two recordings.  Amplitudes and RMS  *)
(* values are whole numbers of millionths (1.0 = 1000000), so that the     *)
(* 1e-6 clamp, the 0.003 floor and the 0.001 default are exact; the        *)
(* attenuation is kept as an exact fraction num/den.                        *)

\* longest recording, in samples
MaxSamples == 3

\* sample rates of the self recording: 25 gives a frame of 0 samples, 50 of 1,
\* 67 of 2; at 11025 and 22050 a frame is longer than any recording here
SampleRates == {25, 50, 67, 11025, 22050}

MicSamples == {0, -8000, 20000}

SysSamples == {0, 2000, 4000, 16000}

Min(a, b) == IF a <= b THEN a ELSE b

Max(a, b) == IF a >= b THEN a ELSE b

RECURSIVE IsqrtBetween(_, _, _)
IsqrtBetween(n, lo, hi) ==
    IF lo = hi THEN lo
    ELSE LET mid == (lo + hi + 1) \div 2
         IN  IF mid * mid <= n THEN IsqrtBetween(n, mid, hi)
                               ELSE IsqrtBetween(n, lo, mid - 1)

\* np.sqrt, to the millionth
Isqrt(n) == IsqrtBetween(n, 0, 46340)

RECURSIVE SumSquares(_, _, _)
SumSquares(data, start, end) ==
    IF start > end THEN 0
    ELSE data[start] * data[start] + SumSquares(data, start + 1, end)

\* np.sqrt(np.mean(data[start:end] ** 2)) of frame i (frames counted from 1)
Rms(data, i, size) ==
    Isqrt(SumSquares(data, (i - 1) * size + 1, i * size) \div size)

\* round(sample_rate * 0.030), halves to the even neighbour
frame_size_rounded(sr) ==
    LET q == (sr * 30) \div 1000
        r == (sr * 30) % 1000
    IN  IF r > 500 \/ (r = 500 /\ q % 2 = 1) THEN q + 1 ELSE q

\* int(mic_sr * 0.030)
frame_size(sr) == (sr * 30) \div 1000

\* twice np.median(values), values not empty
Median2(values) ==
    LET s == SortSeq(values, LAMBDA a, b : a < b)
        n == Len(s)
    IN  IF n % 2 = 1 THEN 2 * s[(n + 1) \div 2]
                     ELSE s[n \div 2] + s[n \div 2 + 1]

\* twice sys_median: the median of the nonzero remote RMS values, else 0.001
sys_median2(sys_rms) ==
    LET nonzero == SelectSeq(sys_rms, LAMBDA r : r > 0)
    IN  IF nonzero # <<>> THEN Median2(nonzero) ELSE 2000

\* four times sys_threshold = max(sys_median * 0.5, 0.003)
sys_threshold4(median2) == Max(median2, 12000)

\* max(mic_rms[i], 1e-6)
Clamped(m) == Max(m, 1)

\* the gate without the test of the ratio
GatedByThreshold(s, m, threshold4) == 4 * s > threshold4

\* sys_rms[i] > sys_threshold, then ratio = sys_rms[i] / max(mic_rms[i], 1e-6)
\* and ratio > 0.3
Gated(s, m, threshold4) ==
    /\ 4 * s > threshold4
    /\ 10 * s > 3 * Clamped(m)

AttenuationUncapped(s, m) ==
    [num |-> 20 * Clamped(m) - 16 * s, den |-> 20 * Clamped(m)]

\* max(0.05, 1.0 - min(ratio * 0.8, 0.95)) over the common denominator
\* 20 * max(mic_rms[i], 1e-6)
Attenuation(s, m) ==
    LET M == Clamped(m)
        X == Min(16 * s, 19 * M)
    IN  [num |-> Max(M, 20 * M - X), den |-> 20 * M]

\* a frame that is not gated is left as it is
Unity == [num |-> 1, den |-> 1]

CountFrames(gated) == Len(gated)

\* suppressed_frames += 1, once per gated frame
SuppressedFrames(gated) == Cardinality({i \in DOMAIN gated : gated[i]})

NoEcho ==
    [status |-> "none", frame_size |-> 0, num_frames |-> 0, mic_rms |-> <<>>,
     sys_rms |-> <<>>, sys_median2 |-> 0, gated |-> <<>>, factor |-> <<>>,
     cleaned |-> <<>>, suppressed_frames |-> 0]

\* the body of _remove_echo after the two reads; cleaned[k] is the sample
\* mic_data[k] times the factor of its frame
remove_echo(mic_sr, mic_in, sys_in) ==
    LET min_len  == Min(Len(mic_in), Len(sys_in))
        mic_data == SubSeq(mic_in, 1, min_len)
        sys_data == SubSeq(sys_in, 1, min_len)
        size     == frame_size(mic_sr)
    IN  IF size = 0
        THEN [NoEcho EXCEPT !.status = "ZeroDivisionError"]
        ELSE
        LET num_frames == Len(mic_data) \div size
            mic_rms    == [i \in 1..num_frames |-> Rms(mic_data, i, size)]
            sys_rms    == [i \in 1..num_frames |-> Rms(sys_data, i, size)]
            median2    == sys_median2(sys_rms)
            threshold4 == sys_threshold4(median2)
            gated      == [i \in 1..num_frames |->
                              Gated(sys_rms[i], mic_rms[i], threshold4)]
            factor     == [i \in 1..num_frames |->
                              IF gated[i]
                              THEN Attenuation(sys_rms[i], mic_rms[i])
                              ELSE Unity]
            FrameOf(k) == (k - 1) \div size + 1
        IN  [status |-> "ok",
             frame_size |-> size,
             num_frames |-> num_frames,
             mic_rms |-> mic_rms,
             sys_rms |-> sys_rms,
             sys_median2 |-> median2,
             gated |-> gated,
             factor |-> factor,
             cleaned |-> [k \in 1..Len(mic_data) |->
                             [sample |-> mic_data[k],
                              factor |-> IF FrameOf(k) <= num_frames
                                         THEN factor[FrameOf(k)]
                                         ELSE Unity]],
             suppressed_frames |-> SuppressedFrames(gated)]

InitEcho ==
    /\ pc = "echo"
    /\ primary = "parakeet"
    /\ parakeet_model = "None"
    /\ whisper_model = "None"
    /\ files = {MicPath, SysPath}
    /\ clean_mic_path = MicPath
    /\ echo = "pending"
    /\ calls = <<>>
    /\ mic_segments = <<>>
    /\ sys_segments = <<>>
    /\ merged = <<>>
    /\ result = NoResult
    /\ json_file = FileOld
    /\ md_file = MdOld
    /\ error = "none"
    /\ recorder = NoRecorder
    /\ world = NoWorld
    /\ threads = <<>>
    /\ args \in {[mic_sr |-> sr, mic_data |-> m, sys_data |-> s] :
                    sr \in SampleRates,
                    m \in SeqsUpTo(MicSamples, MaxSamples),
                    s \in SeqsUpTo(SysSamples, MaxSamples)}
    /\ ret = NoEcho

\* clean_mic_path = self._remove_echo(mic_path, sys_path), the exception of a
\* frame of 0 samples caught by transcribe_meeting
RemoveEchoSamples ==
    /\ pc = "echo"
    /\ ret' = remove_echo(args.mic_sr, args.mic_data, args.sys_data)
    /\ IF ret'.status = "ok"
       THEN /\ files' = files \cup {CleanPath}
            /\ clean_mic_path' = CleanPath
            /\ echo' = "ok"
       ELSE /\ echo' = "failed"
            /\ UNCHANGED <<files, clean_mic_path>>
    /\ pc' = "mic"
    /\ UNCHANGED <<primary, parakeet_model, whisper_model, calls, mic_segments,
                   sys_segments, merged, result, json_file, md_file, error,
                   threads, args,
                   recorder, world>>

NextEcho == RemoveEchoSamples

SpecEcho == InitEcho /\ [][NextEcho]_vars

\* _remove_echo returned a cleaned recording
EchoDone == pc = "mic" /\ ret.status = "ok"

\* a / b <= c / d for a, c >= 0 and b, d > 0, by the continued fractions of
\* the two sides (no product is formed)
RECURSIVE RatLeq(_, _, _, _)
RatLeq(a, b, c, d) ==
    IF a \div b # c \div d THEN a \div b < c \div d
    ELSE IF a % b = 0 THEN TRUE
    ELSE IF c % d = 0 THEN FALSE
    ELSE RatLeq(d, c % d, b, a % b)

\* ratio = sys_rms[i] / max(mic_rms[i], 1e-6) of frame i is at most that of j
RatioLeq(i, j) ==
    RatLeq(ret.sys_rms[i], Clamped(ret.mic_rms[i]),
           ret.sys_rms[j], Clamped(ret.mic_rms[j]))

AllZero(data) == \A k \in 1..Len(data) : data[k] = 0

\* the value of a cleaned sample is the value of the sample x
SameSample(c, x) ==
    /\ c.sample = x
    /\ (x = 0 \/ c.factor.num = c.factor.den)

\* C14: when the remote recording is all zeros no frame is gated: the count
\* of suppressed frames is 0 and the cleaned recording is the self recording
\* cut to the common length, sample for sample.
C14_SilentRemoteGatesNothing ==
    (EchoDone /\ AllZero(args.sys_data)) =>
        /\ ret.suppressed_frames = 0
        /\ Len(ret.cleaned) = Min(Len(args.mic_data), Len(args.sys_data))
        /\ \A k \in 1..Len(ret.cleaned) :
              SameSample(ret.cleaned[k], args.mic_data[k])

\* a silent remote recording shorter than a loud self recording, two frames
C14_Witness ==
    /\ EchoDone
    /\ AllZero(args.sys_data)
    /\ Len(args.sys_data) < Len(args.mic_data)
    /\ ret.num_frames = 2
    /\ ret.sys_median2 = 2000
    /\ \A k \in 1..Len(ret.cleaned) : args.mic_data[k] # 0

\* C15 as stated: the frame length is round(sample_rate * 0.030) at every
\* sample rate.
C15_FrameLengthRounded ==
    pc = "mic" => ret.frame_size = frame_size_rounded(args.mic_sr)

\* C15: the frame length is sample_rate * 0.030 cut to a whole number: it is
\* the rounded value when the fraction is below one half and one less than
\* it when the fraction is above one half (661 at 22050, 330 at 11025).
C15_FrameLengthTruncated ==
    pc = "mic" =>
        LET exact1000 == args.mic_sr * 30
            fraction  == exact1000 % 1000
        IN  /\ 1000 * ret.frame_size <= exact1000
            /\ exact1000 < 1000 * (ret.frame_size + 1)
            /\ fraction < 500 =>
                   ret.frame_size = frame_size_rounded(args.mic_sr)
            /\ fraction > 500 =>
                   ret.frame_size = frame_size_rounded(args.mic_sr) - 1

\* at 11025 samples a second the frame is 330 samples, not 331
C15_Witness ==
    /\ pc = "mic"
    /\ args.mic_sr = 11025
    /\ ret.frame_size = 330
    /\ frame_size_rounded(args.mic_sr) = 331

----------------------------------------------------------------------------
(* _group_words_into_segments on the word timestamps of the primary        *)
(* backend.  Times are whole half-seconds here, so that the pause of 1.5 s *)
(* is the whole number 3; a word is a token of the recogniser, not empty   *)
(* and without white space.                                                *)

\* longest list of word timestamps
MaxWords == 3

\* max_gap: float = 1.5, in half-seconds
max_gap == 3

Words == {<<"a">>, <<"b", "c">>}

\* a word lasts 0 or 0.5 s
WordLengths == {0, 1}

\* the pause before a word: none, 1.5 s, 2 s
WordPauses == {0, 3, 4}

WordShapes ==
    {[word |-> w, length |-> l, pause |-> p] :
        w \in Words, l \in WordLengths, p \in WordPauses}

\* the word timestamps of a list of shapes, the first word after its pause
\* from time 0
RECURSIVE WordStampsFrom(_, _, _)
WordStampsFrom(shapes, i, now) ==
    IF i > Len(shapes) THEN <<>>
    ELSE LET start == now + shapes[i].pause
             end   == start + shapes[i].length
         IN  <<[word |-> shapes[i].word, start |-> start, end |-> end]>>
             \o WordStampsFrom(shapes, i + 1, end)

WordStampLists ==
    {WordStampsFrom(shapes, 1, 0) : shapes \in SeqsUpTo(WordShapes, MaxWords)}

\* " ".join(current_words)
RECURSIVE JoinWords(_)
JoinWords(words) ==
    IF words = <<>> THEN <<>>
    ELSE IF Len(words) = 1 THEN words[1]
    ELSE words[1] \o <<" ">> \o JoinWords(Tail(words))

GapReaches(gap) == gap >= max_gap

\* if gap > max_gap:
GapExceeds(gap) == gap > max_gap

\* the loop of _group_words_into_segments from word i on
RECURSIVE GroupFrom(_, _, _, _, _)
GroupFrom(word_stamps, i, segments, current_words, current_start) ==
    IF i > Len(word_stamps)
    THEN IF current_words # <<>>
         THEN Append(segments,
                     Segment("", current_start,
                             word_stamps[Len(word_stamps)].end,
                             Strip(JoinWords(current_words)), ""))
         ELSE segments
    ELSE LET w     == word_stamps[i]
             words == Append(current_words, w.word)
         IN  IF i < Len(word_stamps)
                /\ GapExceeds(word_stamps[i + 1].start - w.end)
             THEN GroupFrom(word_stamps, i + 1,
                            Append(segments,
                                   Segment("", current_start, w.end,
                                           Strip(JoinWords(words)), "")),
                            <<>>, word_stamps[i + 1].start)
             ELSE GroupFrom(word_stamps, i + 1, segments, words,
                            current_start)

group_words_into_segments(word_stamps) ==
    IF word_stamps = <<>> THEN <<>>
    ELSE GroupFrom(word_stamps, 1, <<>>, <<>>, word_stamps[1].start)

InitWords ==
    /\ pc = "words"
    /\ primary = "parakeet"
    /\ parakeet_model = "ready"
    /\ whisper_model = "None"
    /\ files = {MicPath, SysPath}
    /\ clean_mic_path = MicPath
    /\ echo = "pending"
    /\ calls = <<>>
    /\ mic_segments = <<>>
    /\ sys_segments = <<>>
    /\ merged = <<>>
    /\ result = NoResult
    /\ json_file = FileOld
    /\ md_file = MdOld
    /\ error = "none"
    /\ recorder = NoRecorder
    /\ world = NoWorld
    /\ threads = <<>>
    /\ args \in {[word_stamps |-> ws] : ws \in WordStampLists}
    /\ ret = <<>>

\* chunk_segments = self._group_words_into_segments(word_stamps)
GroupWords ==
    /\ pc = "words"
    /\ ret' = group_words_into_segments(args.word_stamps)
    /\ pc' = "grouped"
    /\ UNCHANGED <<primary, parakeet_model, whisper_model, files,
                   clean_mic_path, echo, calls, mic_segments, sys_segments,
                   merged, result, json_file, md_file, error, threads, args,
                   recorder, world>>

NextWords == GroupWords

SpecWords == InitWords /\ [][NextWords]_vars

\* the words after which a pause longer than 1.5 s follows
Pauses(ws) ==
    {i \in 1..(Len(ws) - 1) : ws[i + 1].start - ws[i].end > 3}

\* the k-th smallest member of a set of numbers
Kth(S, k) == CHOOSE x \in S : Cardinality({y \in S : y < x}) = k - 1

\* the words f..l of the list, one space between neighbours
RECURSIVE Spaced(_, _, _)
Spaced(ws, f, l) ==
    IF f = l THEN ws[f].word
    ELSE ws[f].word \o <<" ">> \o Spaced(ws, f + 1, l)

----------------------------------------------------------------------------
(* _transcribe_parakeet on what model.transcribe returned.  A value that   *)
(* may be missing is a record with its kind: an attribute the result does  *)
(* not have is "absent", None is "None", a key a mapping does not have is  *)
(* a list that is not present.  Times are half-seconds.                    *)

\* longest list of segment timestamps, and of word timestamps, in an output
MaxStamps == 2

Absent == [kind |-> "absent"]

None == [kind |-> "None"]

\* a timestamp that is empty: {} or []
Empty == [kind |-> "empty"]

Missing == [present |-> FALSE, items |-> <<>>]

Listed(items) == [present |-> TRUE, items |-> items]

\* a segment timestamp with its three keys, and one with none of them
SegmentStamps ==
    {[keys |-> {"start", "end", "segment"}, start |-> 1, end |-> 2,
      segment |-> <<" ", "a">>],
     [keys |-> {}, start |-> 0, end |-> 0, segment |-> <<>>]}

ParakeetWordLists ==
    {WordStampsFrom(shapes, 1, 0) :
        shapes \in SeqsUpTo({s \in WordShapes : /\ s.word = <<"a">>
                                                /\ s.length = 1
                                                /\ s.pause \in {0, 4}},
                            MaxStamps)}

Timestamps ==
    {Absent, None, Empty}
    \cup {[kind |-> "dict", segment |-> s, word |-> w] :
             s \in {Missing} \cup {Listed(l) : l \in SeqsUpTo(SegmentStamps, MaxStamps)},
             w \in {Missing} \cup {Listed(l) : l \in ParakeetWordLists}}

Texts ==
    {Absent, None}
    \cup {[kind |-> "str", value |-> v] : v \in {<<>>, <<"a">>, <<" ", "a", " ">>}}

\* None, [] or a list of one result
Outputs ==
    {[kind |-> "None", items |-> <<>>], [kind |-> "list", items |-> <<>>]}
    \cup {[kind |-> "list", items |-> <<[timestamp |-> ts, text |-> tx]>>] :
             ts \in Timestamps, tx \in Texts}

\* stamp.get(key, default)
Get(stamp, key, default) ==
    IF key \in stamp.keys THEN stamp[key] ELSE default

\* result.timestamp.get(key, [])
GetList(timestamp, key) ==
    IF timestamp[key].present THEN timestamp[key].items ELSE <<>>

\* bool(value): None, {}, [] and "" are false
Truthy(value) ==
    CASE value.kind = "dict" -> value.segment.present \/ value.word.present
      [] value.kind = "str"  -> value.value # <<>>
      [] OTHER               -> FALSE

HasTimestampAttr(res) == res.timestamp.kind # "absent"

\* if hasattr(result, 'timestamp') and result.timestamp:
HasTimestamp(res) ==
    res.timestamp.kind # "absent" /\ Truthy(res.timestamp)

\* hasattr(result, 'text') and result.text
HasText(res) ==
    res.text.kind # "absent" /\ Truthy(res.text)

\* for stamp in seg_stamps: segments.append(Segment(...))
SegmentsOfStamps(seg_stamps) ==
    [k \in 1..Len(seg_stamps) |->
        Segment("", Get(seg_stamps[k], "start", 0),
                Get(seg_stamps[k], "end", 0),
                Strip(Get(seg_stamps[k], "segment", <<>>)), "")]

Parsed(status, segments) == [status |-> status, segments |-> segments]

\* the segments read from the timestamps of a result; .get on a value that
\* is not a mapping raises AttributeError
StampedSegments(res) ==
    IF ~HasTimestamp(res) THEN Parsed("ok", <<>>)
    ELSE IF res.timestamp.kind # "dict" THEN Parsed("AttributeError", <<>>)
    ELSE LET seg_stamps  == GetList(res.timestamp, "segment")
             word_stamps == GetList(res.timestamp, "word")
         IN  IF seg_stamps # <<>>
             THEN Parsed("ok", SegmentsOfStamps(seg_stamps))
             ELSE IF word_stamps # <<>>
             THEN Parsed("ok", group_words_into_segments(word_stamps))
             ELSE Parsed("ok", <<>>)

\* the body of _transcribe_parakeet after model.transcribe returned output
transcribe_parakeet_output(output) ==
    IF output.kind = "None" \/ Len(output.items) = 0
    THEN Parsed("ok", <<>>)
    ELSE LET res  == output.items[1]
             stamped == StampedSegments(res)
         IN  IF stamped.status # "ok" THEN stamped
             ELSE IF stamped.segments = <<>> /\ HasText(res)
             THEN Parsed("ok", <<Segment("", 0, 0,
                                         Strip(res.text.value), "")>>)
             ELSE stamped

InitParakeet ==
    /\ pc = "output"
    /\ primary = "parakeet"
    /\ parakeet_model = "ready"
    /\ whisper_model = "None"
    /\ files = {MicPath, SysPath}
    /\ clean_mic_path = MicPath
    /\ echo = "pending"
    /\ calls = <<>>
    /\ mic_segments = <<>>
    /\ sys_segments = <<>>
    /\ merged = <<>>
    /\ result = NoResult
    /\ json_file = FileOld
    /\ md_file = MdOld
    /\ error = "none"
    /\ recorder = NoRecorder
    /\ world = NoWorld
    /\ threads = <<>>
    /\ args \in {[output |-> o] : o \in Outputs}
    /\ ret = Parsed("none", <<>>)

\* segments = [] ... return segments
ParseOutput ==
    /\ pc = "output"
    /\ ret' = transcribe_parakeet_output(args.output)
    /\ pc' = "parsed"
    /\ UNCHANGED <<primary, parakeet_model, whisper_model, files,
                   clean_mic_path, echo, calls, mic_segments, sys_segments,
                   merged, result, json_file, md_file, error, threads, args,
                   recorder, world>>

NextParakeet == ParseOutput

SpecParakeet == InitParakeet /\ [][NextParakeet]_vars

\* the output holds a result whose timestamps are a mapping
Stamped ==
    /\ args.output.items # <<>>
    /\ args.output.items[1].timestamp.kind = "dict"

\* the segment timestamps and the word timestamps the output holds
SegmentItems ==
    IF Stamped /\ args.output.items[1].timestamp.segment.present
    THEN args.output.items[1].timestamp.segment.items ELSE <<>>

WordItems ==
    IF Stamped /\ args.output.items[1].timestamp.word.present
    THEN args.output.items[1].timestamp.word.items ELSE <<>>

\* the text the output holds, <<>> when it holds none
TextItem ==
    IF args.output.items # <<>> /\ args.output.items[1].text.kind = "str"
    THEN args.output.items[1].text.value ELSE <<>>

----------------------------------------------------------------------------
(* Assembly and persistence: merge, result dict, save_transcript, and the  *)
(* same once more on the same channel segments.  The texts include one     *)
(* with a line break inside; the ends do not grow with the starts.         *)

\* most segments of the two channels together
MaxLines == 2

AssembleTexts == {<<>>, <<"a">>, <<"a", "\n", "b">>}

AssembleSegments(speaker) ==
    {Segment(speaker, s, s + l, t, "") :
        s \in {0, 1}, l \in {0, 2}, t \in AssembleTexts}

InitAssemble ==
    /\ pc = "merge"
    /\ primary = "parakeet"
    /\ parakeet_model = "ready"
    /\ whisper_model = "None"
    /\ files = {MicPath, SysPath}
    /\ clean_mic_path = MicPath
    /\ echo = "failed"
    /\ calls = <<>>
    /\ mic_segments \in SeqsUpTo(AssembleSegments("Me"), MaxLines)
    /\ sys_segments \in SeqsUpTo(AssembleSegments("Them"),
                                 MaxLines - Len(mic_segments))
    /\ merged = <<>>
    /\ result = NoResult
    /\ json_file = FileOld
    /\ md_file = MdOld
    /\ error = "none"
    /\ recorder = NoRecorder
    /\ world = NoWorld
    /\ threads = <<>>
    /\ args = <<>>
    /\ ret = [run |-> 1, json |-> FileOld, md |-> MdOld]

\* cli() invoked once more on the same recordings, the backends returning the
\* same segments; ret keeps the two files the first invocation wrote
Rerun ==
    /\ pc = "saved"
    /\ ret.run = 1
    /\ ret' = [run |-> 2, json |-> json_file, md |-> md_file]
    /\ merged' = <<>>
    /\ result' = NoResult
    /\ pc' = "merge"
    /\ UNCHANGED <<primary, parakeet_model, whisper_model, files,
                   clean_mic_path, echo, calls, mic_segments, sys_segments,
                   json_file, md_file, error, threads, args,
                   recorder, world>>

NextAssemble ==
    \/ MergeAndAssemble
    \/ SaveTranscript
    \/ Rerun

SpecAssemble == InitAssemble /\ [][NextAssemble]_vars

\* transcribe_meeting returned its result
Assembled == pc \in {"returned", "saved", "save_failed"}

\* the lines of a text: none for the empty text, else one more than its line
\* breaks
CountLines(text) ==
    IF text = <<>> THEN 0
    ELSE 1 + Cardinality({k \in 1..Len(text) : text[k] = "\n"})

\* C18: in every transcript transcribe_meeting returns, full_text has as many
\* lines as there are segments, num_segments is the number of segments and no
\* segment has an empty text, whatever the merged sequence (empty, or with a
\* line break inside a text).
C18_LinesMatchSegments ==
    Assembled =>
        /\ CountLines(result.full_text) = result.num_segments
        /\ result.num_segments = Len(result.segments)
        /\ \A i \in 1..Len(result.segments) : result.segments[i].text # <<>>

\* d is the largest end of segs, 0 for no segment
IsDurationOf(d, segs) ==
    /\ d >= 0
    /\ segs = <<>> => d = 0
    /\ segs # <<>> => /\ \E i \in 1..Len(segs) : segs[i].end = d
                      /\ \A i \in 1..Len(segs) : segs[i].end <= d

\* C19: duration_seconds is the largest end of the merged segments, 0 when
\* there is none, never negative; the transcript read back from the JSON file
\* is the one written, with the same relation and num_segments equal to the
\* number of its segments.
C19_DurationIsMaxEnd ==
    /\ Assembled =>
          /\ IsDurationOf(result.duration_seconds, merged)
          /\ result.segments = merged
    /\ json_file.status = "new" =>
          LET back == JsonLoad(json_file.data)
          IN  /\ IsDurationOf(back.duration_seconds, back.segments)
              /\ back.num_segments = Len(back.segments)
              /\ pc = "saved" => back = result

\* a saved transcript of two segments, the later one ending first, one text
\* with a line break
C19_Witness ==
    /\ pc = "saved"
    /\ json_file.status = "new"
    /\ Len(merged) = 2
    /\ merged[2].end < merged[1].end
    /\ result.duration_seconds = merged[1].end
    /\ \E i \in 1..2 : merged[i].text = <<"a", "\n", "b">>
    /\ json_file.data # result

\* the second invocation has saved its two files
SavedAgain == ret.run = 2 /\ pc = "saved"

\* C20 as stated: the files of the second invocation are, byte for byte, the
\* files of the first.
C20_ByteIdentical ==
    SavedAgain => (json_file = ret.json /\ md_file = ret.md)

\* where the Markdown file holds the processing time
MarkdownTimeAt == {k \in 1..13 : k > 10}

\* C20: the files of the second invocation differ from those of the first at
\* most in the processing time: the JSON member processing_time and the
\* "Processing time" line of the Markdown file; with equal processing times
\* they are the same byte for byte.
C20_IdenticalButProcessingTime ==
    SavedAgain =>
        /\ [json_file.data EXCEPT !.processing_time = 0]
              = [ret.json.data EXCEPT !.processing_time = 0]
        /\ Len(md_file.data) = Len(ret.md.data)
        /\ \A k \in 1..Len(md_file.data) :
              k \notin MarkdownTimeAt => md_file.data[k] = ret.md.data[k]
        /\ json_file.data.processing_time = ret.json.data.processing_time
              => (json_file = ret.json /\ md_file = ret.md)

\* two invocations on the same two segments whose JSON files differ and whose
\* Markdown files are the same (1.20 s and 1.24 s both print as 1.2s)
C20_Witness ==
    /\ SavedAgain
    /\ Len(merged) = 2
    /\ json_file # ret.json
    /\ md_file = ret.md

----------------------------------------------------------------------------
(* C21..C28: the pipeline, under Spec *)

AllTagged(segs, speaker) == \A i \in 1..Len(segs) : segs[i].speaker = speaker

\* C21: every segment transcribe_channel returned carries the label it was
\* called with, whichever backend produced it: the segments of the self
\* channel are all "Me", those of the remote channel all "Them", and every
\* segment of the merged transcript is labelled "Me" or "Them".
C21_SpeakerLabels ==
    /\ AllTagged(mic_segments, "Me")
    /\ AllTagged(sys_segments, "Them")
    /\ \A i \in 1..Len(merged) : merged[i].speaker \in Speakers
    /\ \A i \in 1..Len(result.segments) :
          result.segments[i].speaker \in Speakers
    /\ \A sp \in Speakers : \A j \in 1..Len(calls) :
          (/\ calls[j].op = "transcribe" /\ calls[j].speaker = sp /\ calls[j].ok
           /\ pc # "aborted")
              => SameButSpeaker(ChannelSegments(sp), calls[j].returned, sp)

\* a transcript with a "Me" segment from the fallback and a "Them" segment
\* from parakeet, both returned by the backend without a label
C21_Witness ==
    /\ pc = "returned"
    /\ \E j \in 1..Len(calls) :
          /\ Returned(j, "whisper", "Me")
          /\ calls[j].returned # <<>>
          /\ calls[j].returned[1].speaker = ""
    /\ \E j \in 1..Len(calls) :
          Returned(j, "parakeet", "Them") /\ calls[j].returned # <<>>
    /\ \E i, k \in 1..Len(merged) :
          merged[i].speaker = "Me" /\ merged[k].speaker = "Them"

\* os.unlink of the temporary file raised
UnlinkFailed ==
    \E i \in 1..Len(calls) : calls[i].op = "unlink" /\ ~calls[i].ok

\* C22: when the removal of the temporary file raises, the invocation goes
\* on: no error is recorded for it, the channels are merged and the
\* transcript of the merge is returned (only save_transcript can still
\* fail, after the return).
C22_UnlinkFailureIgnored ==
    UnlinkFailed =>
        /\ pc \in {"merge", "returned", "saved", "save_failed"}
        /\ error = (IF pc = "save_failed" THEN "io" ELSE "none")
        /\ CleanPath \in files
        /\ pc # "merge" =>
              /\ merged = merge_channels(mic_segments, sys_segments)
              /\ result.segments = merged
              /\ result.num_segments = Len(merged)

\* the removal raised and the transcript of both channels was returned
C22_Witness ==
    /\ UnlinkFailed
    /\ pc = "returned"
    /\ mic_segments # <<>>
    /\ sys_segments # <<>>
    /\ result.num_segments = 2

----------------------------------------------------------------------------
(* C23: the lines of full_text, under SpecAssemble *)

\* the length of the line of a segment: six pieces around the text, five more
\* for the bracket
LineLength(seg) == 6 + (IF seg.start # 0 THEN 5 ELSE 0) + Len(seg.text)

\* where the line of segment k begins in full_text, the separators counted
RECURSIVE LineOffset(_, _)
LineOffset(segs, k) ==
    IF k = 1 THEN 0
    ELSE LineOffset(segs, k - 1) + LineLength(segs[k - 1]) + 1

\* C23: every line of full_text reads "**<speaker>** [<start>s]: <text>",
\* the bracket with the start to one decimal being there exactly when the
\* start of the segment is not 0, and left out (its space staying) when the
\* start is 0.
C23_TimestampBracket ==
    Assembled =>
        \A k \in 1..Len(merged) :
            LET seg  == merged[k]
                o    == LineOffset(merged, k)
                t    == result.full_text
                body == IF seg.start # 0 THEN o + 9 ELSE o + 4
            IN  /\ Len(t) >= o + LineLength(seg)
                /\ SubSeq(t, o + 1, o + 4) = <<"**", seg.speaker, "**", " ">>
                /\ (t[o + 5] = "[") = (seg.start # 0)
                /\ seg.start # 0 =>
                      SubSeq(t, o + 5, o + 9)
                          = <<"[", ToString(seg.start), ".", "0", "s]">>
                /\ SubSeq(t, body + 1, body + 2) = <<":", " ">>
                /\ SubSeq(t, body + 3, body + 2 + Len(seg.text)) = seg.text
                /\ k < Len(merged) => t[o + LineLength(seg) + 1] = "\n"
                /\ k = Len(merged) => Len(t) = o + LineLength(seg)

\* a transcript whose first line has no bracket and whose second has one
C23_Witness ==
    /\ pc = "returned"
    /\ Len(merged) = 2
    /\ merged[1].start = 0
    /\ merged[2].start = 1
    /\ result.full_text =
          <<"**", "Me", "**", " ", ":", " ", "a", "\n",
            "**", "Them", "**", " ", "[", "1", ".", "0", "s]", ":", " ", "a">>

----------------------------------------------------------------------------
(* C24: the order of the steps, under Spec *)

\* a backend transcribed the channel of speaker
Transcribed(speaker) ==
    \E i \in 1..Len(calls) : \E b \in Backends : Returned(i, b, speaker)

\* the steps after echo suppression, in the order of the code: the calls for
\* the self channel, then those for the remote channel on the raw remote
\* file, then the removal, then merge and assembly
StepsInOrder ==
    /\ (pc = "echo") = (echo = "pending")
    /\ \A i, j \in 1..Len(calls) :
          /\ (calls[i].speaker = "Them" /\ calls[j].speaker = "Me") => j < i
          /\ (calls[i].op = "unlink" /\ j # i) => j < i
    /\ \A i \in 1..Len(calls) :
          /\ calls[i].speaker = "Me" => calls[i].path = clean_mic_path
          /\ calls[i].speaker = "Them" =>
                (calls[i].path = SysPath /\ Transcribed("Me"))
    /\ pc \in {"cleanup", "merge", "returned", "saved", "save_failed"} =>
          (Transcribed("Me") /\ Transcribed("Them"))
    /\ pc \in {"echo", "mic", "sys", "cleanup", "merge", "aborted"} =>
          (merged = <<>> /\ result = NoResult)

\* C24 as stated: the backend is loaded or reused first, echo suppression
\* comes second, then the steps in their order.
C24_LoadThenEcho ==
    /\ StepsInOrder
    /\ echo # "pending" =>
          (parakeet_model # "None" \/ whisper_model # "None")

\* C24: echo suppression comes first; no backend is loaded before it, the
\* model of a backend being loaded inside the first channel transcription
\* that uses it and reused afterwards; then the self channel, then the
\* remote channel from the raw remote file, then the removal of the
\* temporary file, merge and assembly.
C24_EchoThenLoad ==
    /\ StepsInOrder
    /\ pc = "echo" =>
          (calls = <<>> /\ parakeet_model = "None" /\ whisper_model = "None")
    /\ \A b \in Backends : \A i \in 1..Len(calls) :
          IsLoad(i, b) =>
              /\ echo # "pending"
              /\ calls[i].speaker \in Speakers
              /\ \A j \in 1..(i - 1) : ~Returned(j, b, calls[i].speaker)

\* echo suppression wrote the cleaned file before anything was loaded,
\* parakeet was loaded for the self channel, reused for the remote channel,
\* and the transcript was returned
C24_Witness ==
    /\ pc = "returned"
    /\ echo = "ok"
    /\ Len(calls) = 4
    /\ IsLoad(1, "parakeet") /\ calls[1].speaker = "Me"
    /\ calls[1].path = CleanPath
    /\ Returned(2, "parakeet", "Me")
    /\ Returned(3, "parakeet", "Them") /\ calls[3].path = SysPath
    /\ calls[4].op = "unlink"
    /\ result.num_segments = 2

----------------------------------------------------------------------------
(* C25: which frames are attenuated, under SpecEcho *)

\* m2 is twice a median of the values that are not 0, or twice 0.001 when
\* there is none
IsMedian2(m2, values) ==
    LET nonzero == {i \in 1..Len(values) : values[i] > 0}
    IN  IF nonzero = {} THEN m2 = 2000
        ELSE /\ 2 * Cardinality({i \in nonzero : 2 * values[i] < m2})
                    <= Cardinality(nonzero)
             /\ 2 * Cardinality({i \in nonzero : 2 * values[i] > m2})
                    <= Cardinality(nonzero)

\* frame i is gated: its remote RMS exceeds max(0.5 * median, 0.003) and
\* remote RMS / max(self RMS, 1e-6) > 0.3
GatedFrame(i) ==
    /\ 2 * ret.sys_rms[i] > 6000
    /\ 4 * ret.sys_rms[i] > ret.sys_median2
    /\ 10 * ret.sys_rms[i] > 3 * ret.mic_rms[i]
    /\ 10 * ret.sys_rms[i] > 3

\* the frame of sample k, 0 for a sample after the last whole frame
FrameOfSample(k) ==
    IF (k - 1) \div ret.frame_size < ret.num_frames
    THEN (k - 1) \div ret.frame_size + 1 ELSE 0

C25_WitnessTrailing ==
    /\ EchoDone
    /\ ret.frame_size = 2
    /\ Len(ret.cleaned) = 3
    /\ ret.gated = <<TRUE>>
    /\ ret.cleaned[3].sample # 0
    /\ ret.cleaned[3].factor = Unity

----------------------------------------------------------------------------
(* C26..C28, under Spec *)

\* C26: the two recordings are never deleted: the only file unlinked is the
\* temporary cleaned file, and only after echo suppression succeeded and
\* returned a path other than the mic path.
C26_RecordingsKept ==
    /\ MicPath \in files
    /\ SysPath \in files
    /\ \A i \in 1..Len(calls) :
          calls[i].op = "unlink" =>
              /\ calls[i].path = CleanPath
              /\ calls[i].path = clean_mic_path
              /\ clean_mic_path # MicPath
              /\ echo = "ok"
              /\ \A j \in 1..Len(calls) : calls[j].op = "unlink" => j = i
    /\ (echo # "ok" /\ pc \in Finished) =>
          \A i \in 1..Len(calls) : calls[i].op # "unlink"

\* the temporary file was unlinked and the two recordings are what is left
C26_Witness ==
    /\ pc = "returned"
    /\ echo = "ok"
    /\ calls[Len(calls)].op = "unlink"
    /\ calls[Len(calls)].ok
    /\ files = {MicPath, SysPath}

\* C27: model_used of the transcript, and of the two files written from it,
\* is the configured primary_model, also when the fallback produced every
\* segment after the primary failed.
C27_ModelUsedIsPrimary ==
    /\ pc \in {"returned", "saved", "save_failed"} =>
          result.model_used = primary
    /\ json_file.status = "new" => json_file.data.model_used = primary
    /\ md_file.status = "new" =>
          SubSeq(md_file.data, 4, 5) = <<"- Model: ", primary>>

\* parakeet is configured, failed on both channels, whisper produced the two
\* segments of the saved transcript
C27_Witness ==
    /\ pc = "saved"
    /\ primary = "parakeet"
    /\ \E i \in 1..Len(calls) : Failed(i, "parakeet", "Me")
    /\ \E i \in 1..Len(calls) : Failed(i, "parakeet", "Them")
    /\ \A i \in 1..Len(calls) : calls[i].backend = "parakeet" => ~calls[i].ok
    /\ result.num_segments = 2
    /\ result.model_used = "parakeet"

\* C28: with any primary_model other than "parakeet", a value that is not
\* recognised included, only whisper is loaded and invoked, once per channel,
\* and a failure of whisper ends the invocation: nothing is tried after it.
C28_OtherPrimaryIsWhisperOnly ==
    primary # "parakeet" =>
        /\ parakeet_model = "None"
        /\ \A i \in 1..Len(calls) :
              calls[i].op \in {"load", "transcribe"} =>
                  calls[i].backend = "whisper"
        /\ \A sp \in Speakers :
              Cardinality({i \in 1..Len(calls) :
                              /\ calls[i].op = "transcribe"
                              /\ calls[i].speaker = sp}) <= 1
        /\ pc \in {"sys", "cleanup"} => Transcribed("Me")
        /\ \A i \in 1..Len(calls) :
              (calls[i].backend = "whisper" /\ ~calls[i].ok) =>
                  /\ i = Len(calls)
                  /\ pc = "aborted"
                  /\ error = "transcription"
                  /\ result = NoResult

\* a primary_model that is not recognised: whisper transcribed the self
\* channel and failed on the remote channel
C28_Witness ==
    /\ primary = "other"
    /\ pc = "aborted"
    /\ Len(calls) = 3
    /\ IsLoad(1, "whisper")
    /\ Returned(2, "whisper", "Me")
    /\ mic_segments # <<>>
    /\ Failed(Len(calls), "whisper", "Them")

----------------------------------------------------------------------------
(* recorder.py: MeetingRecorder.start and MeetingRecorder.stop               *)
(*                                                                         *)
(* recorder holds the three private fields of the object.  world.procs is  *)
(* the list of capture processes launched so far, each "live" or "dead"; a *)
(* process is named by its position in the list and 0 stands for None.     *)
(* world.binary says whether the audiocap binary exists and world.now is   *)
(* the wall clock in whole seconds, the resolution of the session id.  ret *)
(* is the outcome of the latest call: which method, what it raised and     *)
(* what it returned.  Calls are made one after the other.  A process that  *)
(* was sent kill() counts as dead.                                         *)

\* capture processes launched in one behaviour
MaxProcs == 2

\* seconds the wall clock advances in one behaviour
MaxNow == 2

\* datetime.now().strftime("%Y-%m-%d_%H-%M-%S"): one id per second
SessionId(t) == ToString(t)

CallRaised(op, exc) == [op |-> op, raised |-> exc, value |-> "None"]

CallReturned(op, value) == [op |-> op, raised |-> "none", value |-> value]

\* the processes poll() reports as running
LiveProcs == {p \in DOMAIN world.procs : world.procs[p] = "live"}

RecorderFrame ==
    UNCHANGED <<pc, primary, parakeet_model, whisper_model, files,
                clean_mic_path, echo, calls, mic_segments, sys_segments,
                merged, result, json_file, md_file, error, threads, args>>

InitRecorder ==
    /\ pc = "recorder"
    /\ primary = "parakeet"
    /\ parakeet_model = "None"
    /\ whisper_model = "None"
    /\ files = {}
    /\ clean_mic_path = "None"
    /\ echo = "none"
    /\ calls = <<>>
    /\ mic_segments = <<>>
    /\ sys_segments = <<>>
    /\ merged = <<>>
    /\ result = NoResult
    /\ json_file = FileOld
    /\ md_file = MdOld
    /\ error = "none"
    /\ threads = <<>>
    /\ args = <<>>
    /\ ret = CallReturned("none", "None")
    /\ recorder = NoRecorder
    /\ world \in {[NoWorld EXCEPT !.binary = b] : b \in BOOLEAN}

\* start from check_ready on: the session id is assigned before the launch,
\* the process handle is kept whether or not the process survives the
\* 1.5 seconds, and _recording is set only when poll() is None
StartBody ==
    IF ~world.binary
        THEN /\ ret' = CallRaised("start", "RuntimeError")
             /\ UNCHANGED <<recorder, world>>
        ELSE \/ \* mkdir or Popen raises
                /\ recorder' = [recorder EXCEPT
                                    !.session_id = SessionId(world.now)]
                /\ ret' = CallRaised("start", "OSError")
                /\ UNCHANGED world
             \/ \* the process exited within the 1.5 seconds
                /\ Len(world.procs) < MaxProcs
                /\ world' = [world EXCEPT !.procs = Append(@, "dead")]
                /\ recorder' = [recorder EXCEPT
                                    !.session_id = SessionId(world.now),
                                    !.audiocap_proc = Len(world.procs) + 1]
                /\ ret' = CallRaised("start", "RuntimeError")
             \/ \* the process is running after the 1.5 seconds
                /\ Len(world.procs) < MaxProcs
                /\ world' = [world EXCEPT !.procs = Append(@, "live")]
                /\ recorder' = [recording |-> TRUE,
                                session_id |-> SessionId(world.now),
                                audiocap_proc |-> Len(world.procs) + 1]
                /\ ret' = CallReturned("start", SessionId(world.now))

StartUnguarded ==
    /\ pc = "recorder"
    /\ StartBody
    /\ RecorderFrame

Start ==
    /\ pc = "recorder"
    /\ IF recorder.recording
           THEN /\ ret' = CallRaised("start", "RuntimeError")
                /\ UNCHANGED <<recorder, world>>
           ELSE StartBody
    /\ RecorderFrame

\* stop: SIGINT and wait(timeout=10), kill() on timeout; either way the
\* process is gone; the duration is read under except Exception: pass
Stop ==
    /\ pc = "recorder"
    /\ IF ~recorder.recording
           THEN /\ ret' = CallRaised("stop", "RuntimeError")
                /\ UNCHANGED <<recorder, world>>
           ELSE LET p == recorder.audiocap_proc
                    running == p # 0 /\ world.procs[p] = "live"
                IN  /\ world' = IF running
                                    THEN [world EXCEPT !.procs[p] = "dead"]
                                    ELSE world
                    /\ recorder' = [recorder EXCEPT !.recording = FALSE]
                    /\ ret' = CallReturned("stop", recorder.session_id)
    /\ RecorderFrame

\* a capture process ends by itself
ProcessExits ==
    /\ pc = "recorder"
    /\ \E p \in LiveProcs : world' = [world EXCEPT !.procs[p] = "dead"]
    /\ UNCHANGED <<recorder, ret>>
    /\ RecorderFrame

\* the audiocap binary is built or removed between two calls
BinaryChanges ==
    /\ pc = "recorder"
    /\ world' = [world EXCEPT !.binary = ~@]
    /\ UNCHANGED <<recorder, ret>>
    /\ RecorderFrame

\* a second passes between two calls
Tick ==
    /\ pc = "recorder"
    /\ world.now < MaxNow
    /\ world' = [world EXCEPT !.now = @ + 1]
    /\ UNCHANGED <<recorder, ret>>
    /\ RecorderFrame

NextRecorder ==
    \/ Start
    \/ Stop
    \/ ProcessExits
    \/ BinaryChanges
    \/ Tick

SpecRecorder == InitRecorder /\ [][NextRecorder]_vars

\* the step is a call of the method op
Called(op) == ret' # ret /\ ret'.op = op

\* in every state: at most one capture process is live, and while
\* recording the object holds a session id and a process
RecorderConsistent ==
    /\ Cardinality(LiveProcs) <= 1
    /\ recorder.recording =>
           /\ recorder.session_id # "None"
           /\ recorder.audiocap_proc \in DOMAIN world.procs

\* start while recording raises RuntimeError and changes nothing
StartWhileRecording ==
    (recorder.recording /\ Called("start")) =>
        /\ ret'.raised = "RuntimeError"
        /\ recorder' = recorder
        /\ world' = world

\* stop while not recording raises RuntimeError and changes nothing
StopWhileIdle ==
    (~recorder.recording /\ Called("stop")) =>
        /\ ret'.raised = "RuntimeError"
        /\ recorder' = recorder
        /\ world' = world

\* is_recording becomes true only by a start that returns, with a freshly
\* launched process that is live; a start that raises leaves it false
TrueOnlyByStart ==
    /\ (~recorder.recording /\ recorder'.recording) =>
           /\ ret'.op = "start"
           /\ ret'.raised = "none"
           /\ ret'.value = recorder'.session_id
           /\ recorder'.audiocap_proc = Len(world.procs) + 1
           /\ LiveProcs = {}
           /\ world'.procs = Append(world.procs, "live")
    /\ (~recorder.recording /\ Called("start") /\ ret'.raised # "none") =>
           ~recorder'.recording

\* is_recording becomes false only by a stop that returns
FalseOnlyByStop ==
    (recorder.recording /\ ~recorder'.recording) =>
        /\ ret'.op = "stop"
        /\ ret'.raised = "none"
        /\ world'.procs \in {world.procs,
               [world.procs EXCEPT ![recorder.audiocap_proc] = "dead"]}

\* C29: MeetingRecorder is a two-state machine kept consistent by every
\* sequence of start and stop calls: start while recording raises
\* RuntimeError and leaves is_recording true and the session id unchanged;
\* stop while not recording raises RuntimeError; is_recording becomes true
\* only by a start whose capture process is live after the launch and false
\* only by a successful stop, so at most one capture process is live.
C29_TwoStateMachine ==
    /\ []RecorderConsistent
    /\ [][/\ StartWhileRecording
          /\ StopWhileIdle
          /\ TrueOnlyByStart
          /\ FalseOnlyByStop]_vars

\* a second recording is running, the first one was stopped, and a start
\* called meanwhile was refused
C29_Witness ==
    /\ pc = "recorder"
    /\ recorder.recording
    /\ ret = CallRaised("start", "RuntimeError")
    /\ world.procs = <<"dead", "live">>
    /\ recorder.audiocap_proc = 2

====
